---- MODULE Spec2Model ----
(***************************************************************************)
(* Organization hierarchy and visibility engine of taskedo:                *)
(*   lib/hierarchy.ts      getAllSubordinates, getEligibleAssignees,       *)
(*                         getVisibleAssigneeNames, getVisibleUserIds      *)
(*   pages/TeamPage.tsx    wouldCreateCycle, handleUpdateMember, loadTeam  *)
(*   pages/OverviewPage.tsx, pages/CalendarPage.tsx   task visibility      *)
(*   pages/AnalyticsPage.tsx (KanbanPage)   task filter, status changes    *)
(*   lib/teamService.ts    ensureOwnerMember, respondToJoinRequest         *)
(*                                                                         *)
(* A member record is [id, user_id, name, role, manager_id].  Member ids   *)
(* and account ids are positive integers; NULL (0) is the SQL null.        *)
(***************************************************************************)
EXTENDS Integers, Sequences, FiniteSets, TLC

\* ---------------------------------------------------------------- bounds
MaxMembers == 3       \* rows of team_members in the hierarchy specifications
MaxViewMembers == 3   \* rows of team_members in the visibility specifications
MaxShared == 2        \* rows of team_members when two clients share the table
MaxEdits == 2         \* explicit edits committed in one behaviour
MaxRemovals == 1      \* members removed in one behaviour of the removal specification
MaxTeamOps == 2       \* edits, removals and invitations in one behaviour of the whole page
MaxAccounts == 2      \* accounts in the visibility specifications
MaxRepairMembers == 3 \* rows of team_members in the reconciliation specification
MaxRoleMembers == 3   \* rows of team_members when the role labels vary
MaxSoloEdits == 3     \* edits the single client commits on its settled page
MaxOrderMembers == 5  \* rows of team_members in the result-order specification

NULL == 0
MemberIds == 1..MaxMembers
Gone == MaxMembers + 1          \* id of a row that is no longer in the table
Roles == {"owner", "Employee"}
Clients == {"c1", "c2"}
OwnerAccount == 1               \* organizations.owner_id
CircularError == "circularDependencyError"
WriteError == "err.message"

VARIABLES
    members,         \* the team_members table of one organization, by created_at
    team,            \* team[c]: TeamPage state `team` of client c
    alert,           \* the window.alert message the last step showed, "" if none
    loading,         \* loading[c]: a loadTeam() call of client c is in flight
    commits,         \* commits[c]: explicit edits client c has committed
    nextId,          \* id the table gives to the next inserted row
    canManage,       \* canManage[c]: canManageTeam of client c
    repair,          \* repair[c]: the updateMember calls enforceHierarchy of c has pending
    passes,          \* passes[c]: runs of enforceHierarchy of c that wrote and finished
    removal,         \* the rows removed so far and the rows that reported to them
    request,         \* status of the one row of join_requests, "none" without a row
    joinRequests,    \* joinRequests[c]: the list of client c shows the request
    respond,         \* respond[c]: position of c's respondToJoinRequest call
    storedTask,      \* the one row of table tasks
    tasks,           \* tasks[u]: KanbanPage state `tasks` of user u, its copy of the row
    pending,         \* pending[u]: the status user u's updateTask call carries
    list,            \* argument `team` of the pure function under test
    args,            \* the call applied to list
    ret              \* its result

vars == <<members, team, alert, loading, commits, nextId, canManage, repair,
          passes, removal, request, joinRequests, respond, storedTask, tasks, pending,
          list, args, ret>>
sysVars == <<members, team, alert, loading, commits, nextId>>
pageVars == <<canManage, repair, passes, removal>>
funVars == <<list, args, ret>>
joinVars == <<request, joinRequests, respond>>
kanbanVars == <<storedTask, tasks, pending>>

\* ------------------------------------------------------------ data model
Member(i, u, n, r, m) ==
    [id |-> i, user_id |-> u, name |-> n, role |-> r, manager_id |-> m]

\* Array.prototype.find(m => m.id === id): index of the first match, 0 if none
findById(t, id) ==
    IF \E i \in DOMAIN t : t[i].id = id
    THEN CHOOSE i \in DOMAIN t : t[i].id = id /\ \A j \in 1..(i-1) : t[j].id # id
    ELSE 0

\* Array.prototype.find(m => m.user_id === currentUserId)
findByUserId(t, uid) ==
    IF \E i \in DOMAIN t : t[i].user_id = uid
    THEN CHOOSE i \in DOMAIN t : t[i].user_id = uid
                                 /\ \A j \in 1..(i-1) : t[j].user_id # uid
    ELSE 0

\* ------------------------------------------------- TeamPage.wouldCreateCycle
\* The while loop, one iteration per unfolding.  A walk over n rows that has
\* not left the loop after n iterations is inside a manager-pointer cycle and
\* never leaves it: the call does not return ("hang").
\* the walk stopped after the candidate's own manager
cycleWalkOnce(t, targetId, currentId, steps) ==
    IF currentId = NULL THEN "false"
    ELSE LET k == findById(t, currentId) IN
         IF k = 0 THEN "false"
         ELSE IF t[k].manager_id = targetId THEN "true"
         ELSE "false"

RECURSIVE cycleWalk(_, _, _, _)
cycleWalk(t, targetId, currentId, steps) ==
    IF currentId = NULL THEN "false"
    ELSE IF steps > Len(t) THEN "hang"
    ELSE LET k == findById(t, currentId) IN
         IF k = 0 THEN "false"
         ELSE IF t[k].manager_id = targetId THEN "true"
         ELSE cycleWalk(t, targetId, t[k].manager_id, steps + 1)

\* wouldCreateCycle with the walk up the chain left out
wouldCreateCycleSelfOnly(t, targetId, newManagerId) ==
    IF newManagerId = NULL THEN "false"
    ELSE IF newManagerId = targetId THEN "true"
    ELSE "false"

\* wouldCreateCycle without the comparison of line 53
wouldCreateCycleWalkOnly(t, targetId, newManagerId) ==
    IF newManagerId = NULL THEN "false"
    ELSE cycleWalk(t, targetId, newManagerId, 0)

\* wouldCreateCycle refusing a member without a manager
wouldCreateCycleNullRefused(t, targetId, newManagerId) ==
    IF newManagerId = NULL THEN "true"
    ELSE IF newManagerId = targetId THEN "true"
    ELSE cycleWalk(t, targetId, newManagerId, 0)

wouldCreateCycle(t, targetId, newManagerId) ==
    IF newManagerId = NULL THEN "false"
    ELSE IF newManagerId = targetId THEN "true"
    ELSE cycleWalk(t, targetId, newManagerId, 0)

\* ---------------------------------------------------------- lib/hierarchy
\* what a call leaves behind when the recursion never bottoms out
RangeError == Member(0 - 1, NULL, "RangeError", "", NULL)

\* getAllSubordinates without the recursive calls
subordinatesDirectOnly(t, memberId, depth) ==
    SelectSeq(t, LAMBDA m : m.manager_id = memberId)

\* getAllSubordinates with each direct report followed by its own subtree
RECURSIVE subordinatesPreorder(_, _, _)
subordinatesPreorder(t, memberId, depth) ==
    IF depth > Len(t) THEN <<RangeError>>
    ELSE LET directSubs == SelectSeq(t, LAMBDA m : m.manager_id = memberId)
             RECURSIVE loop(_, _)
             loop(k, allSubs) ==
                 IF k > Len(directSubs) THEN allSubs
                 ELSE loop(k + 1, allSubs \o <<directSubs[k]>>
                               \o subordinatesPreorder(t, directSubs[k].id, depth + 1))
         IN loop(1, <<>>)

\* getAllSubordinates with the subtrees appended from the last direct report
\* to the first
RECURSIVE subordinatesLastFirst(_, _, _)
subordinatesLastFirst(t, memberId, depth) ==
    IF depth > Len(t) THEN <<RangeError>>
    ELSE LET directSubs == SelectSeq(t, LAMBDA m : m.manager_id = memberId)
             RECURSIVE loop(_, _)
             loop(k, allSubs) ==
                 IF k < 1 THEN allSubs
                 ELSE loop(k - 1, allSubs \o subordinatesLastFirst(t, directSubs[k].id, depth + 1))
         IN loop(Len(directSubs), directSubs)

\* getAllSubordinates at recursion depth `depth`.  In a list of n rows a call
\* deeper than n is inside a manager-pointer cycle: the stack overflows.
RECURSIVE subordinatesAt(_, _, _)
subordinatesAt(t, memberId, depth) ==
    IF depth > Len(t) THEN <<RangeError>>
    ELSE LET directSubs == SelectSeq(t, LAMBDA m : m.manager_id = memberId)
             RECURSIVE loop(_, _)
             loop(k, allSubs) ==
                 IF k > Len(directSubs) THEN allSubs
                 ELSE loop(k + 1, allSubs \o subordinatesAt(t, directSubs[k].id, depth + 1))
         IN loop(1, directSubs)

Throws(r) == \E i \in DOMAIN r : r[i] = RangeError

getAllSubordinates(t, memberId) ==
    LET r == subordinatesAt(t, memberId, 0)
    IN IF Throws(r) THEN <<RangeError>> ELSE r

\* getEligibleAssignees without the scoping of lines 34-36
getEligibleAssigneesUnscoped(t, currentUserId) ==
    IF findByUserId(t, currentUserId) = 0 THEN <<>> ELSE t

\* getEligibleAssignees taking the owner role for top-level
getEligibleAssigneesOwnerRoot(t, currentUserId) ==
    LET k == findByUserId(t, currentUserId) IN
    IF k = 0 THEN <<>>
    ELSE IF t[k].manager_id = NULL \/ t[k].role = "owner" THEN t
    ELSE LET subordinates == getAllSubordinates(t, t[k].id)
         IN IF Throws(subordinates) THEN <<RangeError>> ELSE <<t[k]>> \o subordinates

getEligibleAssignees(t, currentUserId) ==
    LET k == findByUserId(t, currentUserId) IN
    IF k = 0 THEN <<>>
    ELSE IF t[k].manager_id = NULL THEN t
    ELSE LET subordinates == getAllSubordinates(t, t[k].id)
         IN IF Throws(subordinates) THEN <<RangeError>> ELSE <<t[k]>> \o subordinates

\* getVisibleAssigneeNames with the viewer's own name after the subordinates
getVisibleAssigneeNamesSelfLast(t, currentUserId) ==
    LET k == findByUserId(t, currentUserId) IN
    IF k = 0 THEN <<>>
    ELSE IF t[k].manager_id = NULL THEN [i \in DOMAIN t |-> t[i].name]
    ELSE LET subordinates == getAllSubordinates(t, t[k].id)
         IN IF Throws(subordinates) THEN <<"RangeError">>
            ELSE [i \in DOMAIN subordinates |-> subordinates[i].name] \o <<t[k].name>>

\* getVisibleAssigneeNames without the guard of line 46
getVisibleAssigneeNamesNoGuard(t, currentUserId) ==
    LET k == findByUserId(t, currentUserId) IN
    IF k = 0 \/ t[k].manager_id = NULL THEN [i \in DOMAIN t |-> t[i].name]
    ELSE LET subordinates == getAllSubordinates(t, t[k].id)
         IN IF Throws(subordinates) THEN <<"RangeError">>
            ELSE <<t[k].name>> \o [i \in DOMAIN subordinates |-> subordinates[i].name]

getVisibleAssigneeNames(t, currentUserId) ==
    LET k == findByUserId(t, currentUserId) IN
    IF k = 0 THEN <<>>
    ELSE IF t[k].manager_id = NULL THEN [i \in DOMAIN t |-> t[i].name]
    ELSE LET subordinates == getAllSubordinates(t, t[k].id)
         IN IF Throws(subordinates) THEN <<"RangeError">>
            ELSE <<t[k].name>> \o [i \in DOMAIN subordinates |-> subordinates[i].name]

\* getVisibleUserIds without the top-level branch of lines 64-67
getVisibleUserIdsNoRoot(t, currentUserId) ==
    LET k == findByUserId(t, currentUserId) IN
    IF k = 0 THEN <<>>
    ELSE LET subordinates == getAllSubordinates(t, t[k].id)
         IN IF Throws(subordinates) THEN <<0 - 1>>
            ELSE <<t[k].user_id>> \o [i \in DOMAIN subordinates |-> subordinates[i].user_id]

getVisibleUserIds(t, currentUserId) ==
    LET k == findByUserId(t, currentUserId) IN
    IF k = 0 THEN <<>>
    ELSE IF t[k].manager_id = NULL THEN [i \in DOMAIN t |-> t[i].user_id]
    ELSE LET subordinates == getAllSubordinates(t, t[k].id)
         IN IF Throws(subordinates) THEN <<0 - 1>>
            ELSE <<t[k].user_id>> \o [i \in DOMAIN subordinates |-> subordinates[i].user_id]

\* Array.prototype.includes
includes(seq, x) == \E i \in DOMAIN seq : seq[i] = x

\* the Overview filter with the name match tried for every task
visibleTasksNameAlways(t, user, isOwner, task) ==
    \/ isOwner
    \/ task.assignee_id = user
    \/ includes(getVisibleUserIds(t, user), task.assignee_id)
    \/ includes(getVisibleAssigneeNames(t, user), task.assignee)

\* OverviewPage lines 182-191, the predicate of tasks.filter
visibleTasks(t, user, isOwner, task) ==
    LET visibleAssigneeNames == IF user # NULL THEN getVisibleAssigneeNames(t, user) ELSE <<>>
        visibleUserIds == IF user # NULL THEN getVisibleUserIds(t, user) ELSE <<>>
    IN \/ isOwner
       \/ (user # NULL /\ task.assignee_id = user)
       \/ IF task.assignee_id # NULL
          THEN includes(visibleUserIds, task.assignee_id)
          ELSE includes(visibleAssigneeNames, task.assignee)

\* CalendarPage lines 57-58, 147-149
isVisible(t, user, isOwner, task) ==
    LET visibleNames == IF user # NULL THEN getVisibleAssigneeNames(t, user) ELSE <<>>
        visibleUserIds == IF user # NULL THEN getVisibleUserIds(t, user) ELSE <<>>
    IN \/ isOwner
       \/ (user # NULL /\ task.assignee_id = user)
       \/ IF task.assignee_id # NULL
          THEN includes(visibleUserIds, task.assignee_id)
          ELSE includes(visibleNames, task.assignee)

\* Array.prototype.some over the member records
some(seq, P(_)) == \E i \in DOMAIN seq : P(seq[i])

\* the Kanban filter without the name match for tasks that carry no id
columnTasksIdOnly(t, user, isOwner, task) ==
    LET eligibleAssignees == IF user # NULL THEN getEligibleAssignees(t, user) ELSE <<>>
    IN \/ isOwner
       \/ (user # NULL /\ task.assignee_id = user)
       \/ (task.assignee_id # NULL
             /\ some(eligibleAssignees, LAMBDA ea : ea.user_id = task.assignee_id))

\* AnalyticsPage (KanbanPage) lines 237, 511-518: the predicate of tasks.filter
\* apart from the column test; COLUMNS holds every value of DbTask.status, so
\* the board shows the tasks this predicate admits
columnTasks(t, user, isOwner, task) ==
    LET eligibleAssignees == IF user # NULL THEN getEligibleAssignees(t, user) ELSE <<>>
    IN \/ isOwner
       \/ (user # NULL /\ task.assignee_id = user)
       \/ IF task.assignee_id # NULL
          THEN some(eligibleAssignees, LAMBDA ea : ea.user_id = task.assignee_id)
          ELSE some(eligibleAssignees, LAMBDA ea : ea.name = task.assignee)

\* ------------------------------------------------------ graph vocabulary
\* ids reached from id by following manager pointers k times or fewer (k >= 1)
RECURSIVE UpTo(_, _, _)
UpTo(t, ids, k) ==
    LET next == ids \cup {t[i].manager_id : i \in {j \in DOMAIN t : t[j].id \in ids}}
    IN IF k = 0 \/ next = ids THEN ids ELSE UpTo(t, next, k - 1)

\* proper ancestors of member id: its manager, its manager's manager, ...
Ancestors(t, id) ==
    LET k == findById(t, id)
    IN IF k = 0 \/ t[k].manager_id = NULL THEN {}
       ELSE UpTo(t, {t[k].manager_id}, Len(t)) \ {NULL}

HasCycle(t) == \E i \in DOMAIN t : t[i].id \in Ancestors(t, t[i].id)
IsForest(t) == ~HasCycle(t)

\* the list with member id's manager pointer replaced
WithManager(t, id, m) ==
    [i \in DOMAIN t |-> IF t[i].id = id THEN [t[i] EXCEPT !.manager_id = m] ELSE t[i]]

\* profiles.display_name of an account
display_name(u) == IF u = OwnerAccount THEN "a" ELSE "b"

\* ------------------------------------------------------------ input sets
\* Rows are listed by created_at; row i carries id i and belongs to account i,
\* the first row is the owner's; mg[i] is its manager pointer.
GraphList(n, mg) ==
    [i \in 1..n |-> Member(i, i, display_name(i),
                           IF i = 1 THEN "owner" ELSE "Employee", mg[i])]

\* ---------------------------------------------------- the stored table
\* the update without its .eq('id', id) filter
updateEveryRow(t, id, r, m) ==
    [i \in DOMAIN t |-> [t[i] EXCEPT !.role = r, !.manager_id = m]]

\* supabase.from('team_members').update({role, manager_id}).eq('id', id)
updateWhereId(t, id, r, m) ==
    [i \in DOMAIN t |->
        IF t[i].id = id THEN [t[i] EXCEPT !.role = r, !.manager_id = m] ELSE t[i]]

\* ensureOwnerMember keeping the latest row of the owner account
ensureOwnerMemberKeepLast(t, fresh) ==
    LET existing == SelectSeq(t, LAMBDA m : m.user_id = OwnerAccount)
    IN IF Len(existing) > 0
       THEN LET owner == existing[Len(existing)]
                synced == [i \in DOMAIN t |->
                             IF t[i].id = owner.id
                             THEN [t[i] EXCEPT !.name = display_name(OwnerAccount)]
                             ELSE t[i]]
            IN SelectSeq(synced, LAMBDA m : m.user_id # OwnerAccount \/ m.id = owner.id)
       ELSE Append(t, Member(fresh, OwnerAccount, display_name(OwnerAccount), "owner", NULL))

\* teamService.ensureOwnerMember: sync the first owner row's name, delete the
\* later rows of the owner account, insert the owner row when there is none
ensureOwnerMember(t, fresh) ==
    LET existing == SelectSeq(t, LAMBDA m : m.user_id = OwnerAccount)
    IN IF Len(existing) > 0
       THEN LET owner == existing[1]
                synced == [i \in DOMAIN t |->
                             IF t[i].id = owner.id
                             THEN [t[i] EXCEPT !.name = display_name(OwnerAccount)]
                             ELSE t[i]]
            IN SelectSeq(synced, LAMBDA m : m.user_id # OwnerAccount \/ m.id = owner.id)
       ELSE Append(t, Member(fresh, OwnerAccount, display_name(OwnerAccount), "owner", NULL))

Ids(t) == {t[i].id : i \in DOMAIN t}

\* What the table does to the rows that point at a deleted row.  The schema
\* of team_members is not among the repository's files; the specification
\* says the subordinates of a removed manager are orphaned: their manager
\* pointer becomes null.
onDelete(t, ids) ==
    [i \in DOMAIN t |->
        IF t[i].manager_id \in ids THEN [t[i] EXCEPT !.manager_id = NULL] ELSE t[i]]

\* teamService.removeMember: delete().eq('id', id)
removeMember(t, id) == SelectSeq(t, LAMBDA m : m.id # id)

\* updateMember writing the row's own id as its manager
updateMemberSelf(t, id, manager_id) ==
    [i \in DOMAIN t |-> IF t[i].id = id THEN [t[i] EXCEPT !.manager_id = id] ELSE t[i]]

\* teamService.updateMember(id, { manager_id })
updateMember(t, id, manager_id) ==
    [i \in DOMAIN t |->
        IF t[i].id = id THEN [t[i] EXCEPT !.manager_id = manager_id] ELSE t[i]]

\* teamService.createMember: the inserted row has no account yet
createMember(t, fresh, role, manager_id) ==
    Append(t, Member(fresh, NULL, "n", role, manager_id))

\* teamService.fetchTeam: the rows by created_at, names patched from profiles
fetchTeam(t) ==
    [i \in DOMAIN t |->
        IF t[i].user_id # NULL THEN [t[i] EXCEPT !.name = display_name(t[i].user_id)]
        ELSE t[i]]

\* loadTeam lines 270-283: keep the first row of every account, and every
\* row without an account
uniqueTeam(data) ==
    LET keep(i) == data[i].user_id = NULL
                   \/ \A j \in 1..(i-1) : data[j].user_id # data[i].user_id
        RECURSIVE build(_)
        build(i) == IF i = 0 THEN <<>>
                    ELSE IF keep(i) THEN Append(build(i-1), data[i]) ELSE build(i-1)
    IN build(Len(data))


TotalCommits == commits["c1"] + commits["c2"]

\* the users of the Kanban board: the organization owner, and two members
KanbanUsers == {1, 2, 3}
NoTask == [creator_id |-> NULL, assignee_id |-> NULL, assignee |-> "", status |-> "none"]

\* nobody has asked to join
NoJoin ==
    /\ request = "none"
    /\ joinRequests = [c \in Clients |-> FALSE]
    /\ respond = [c \in Clients |-> "idle"]

\* the organization has no task
NoKanban ==
    /\ storedTask = NoTask
    /\ tasks = [u \in KanbanUsers |-> NoTask]
    /\ pending = [u \in KanbanUsers |-> "none"]

\* repair[c]: the effect of lines 312-334 is due on the list just set, is
\* waiting for its updateMember calls (one of which may have been rejected),
\* or has nothing left to do
EffectDue == [state |-> "due", owner |-> NULL, orphans |-> {}, failed |-> FALSE]
EffectIdle == [state |-> "idle", owner |-> NULL, orphans |-> {}, failed |-> FALSE]
NoRemoval == [ids |-> {}, subs |-> {}]

\* the explicit changes made so far: committed edits, removals, inserted rows
Explicit == TotalCommits + Cardinality(removal.ids) + (nextId - (Gone + 1))

\* ------------------------------------------------------------- TeamPage
\* The component mounts once: the effect of lines 337-346 has started loadTeam()
\* in the initial state (loading[c]).
\*
\* The edit modal (editingMember, editRole, editManagerId) is filled and saved
\* in one step: opening it, typing the role and selecting the manager are
\* synchronous state updates of one client that read nothing but `team`, and
\* whatever the modal holds the user can replace before pressing save.
\*
\* window.alert is modal: the handler that calls it returns when the user has
\* closed it, so a step that shows a message contains its dismissal and
\* `alert` keeps the message of the last step only.

\* loadTeam lines 297-300: a client that can manage the team fetches the
\* pending join requests (teamService.fetchJoinRequests)
fetchJoinRequests(c) ==
    [joinRequests EXCEPT ![c] = IF canManage[c] THEN request = "pending" ELSE @]

\* loadTeam completes: ensureOwnerMember, fetchTeam, setTeam(uniqueTeam),
\* setJoinRequests
loadTeam(c) ==
    /\ loading[c]
    /\ LET stored == ensureOwnerMember(members, nextId) IN
       /\ members' = onDelete(stored, Ids(members) \ Ids(stored))
       /\ nextId' = IF Len(stored) > Len(members) THEN nextId + 1 ELSE nextId
       /\ team' = [team EXCEPT ![c] = uniqueTeam(fetchTeam(members'))]
    /\ loading' = [loading EXCEPT ![c] = FALSE]
    /\ alert' = ""
    /\ repair' = [repair EXCEPT ![c] = IF @.state = "writing" THEN @ ELSE EffectDue]
    /\ joinRequests' = fetchJoinRequests(c)
    /\ UNCHANGED <<commits, canManage, passes, removal, funVars, request, respond,
                   kanbanVars>>

\* lines 989-1000, the values editManagerId can hold: the member's current
\* manager (line 232), no manager, or any other listed member
managerOptions(t, editingMember) ==
    {NULL, editingMember.manager_id}
        \cup {t[j].id : j \in {k \in DOMAIN t : t[k].id # editingMember.id}}

\* the cycle check made after the update instead of before it
rejectEditAfterWrite(c, editingMember, editRole, editManagerId) ==
    /\ alert' = CircularError
    /\ members' = updateWhereId(members, editingMember.id, editRole, editManagerId)
    /\ UNCHANGED <<team, loading, commits, nextId, funVars, pageVars, joinVars, kanbanVars>>

\* handleUpdateMember lines 240-243: the edit is refused
rejectEdit(c, editingMember, editRole, editManagerId) ==
    /\ alert' = CircularError
    /\ UNCHANGED <<members, team, loading, commits, nextId, funVars, pageVars, joinVars, kanbanVars>>

\* handleUpdateMember lines 245-255: the update succeeds, loadTeam() is started
commitEdit(c, editingMember, editRole, editManagerId) ==
    /\ members' = updateWhereId(members, editingMember.id, editRole, editManagerId)
    /\ loading' = [loading EXCEPT ![c] = TRUE]
    /\ commits' = [commits EXCEPT ![c] = @ + 1]
    /\ alert' = ""
    /\ UNCHANGED <<team, nextId, funVars, pageVars, joinVars, kanbanVars>>

\* handleUpdateMember lines 253, 256-258: the update returns an error
failEdit(c, editingMember, editRole, editManagerId) ==
    /\ alert' = WriteError
    /\ UNCHANGED <<members, team, loading, commits, nextId, funVars, pageVars, joinVars, kanbanVars>>

\* the save button of the edit modal opened on team[c][i].  A cycle walk that
\* never returns freezes the page: no step.
handleUpdateMember(c, i, editRole, editManagerId) ==
    /\ canManage[c]
    /\ i \in DOMAIN team[c]
    /\ LET editingMember == team[c][i]
           w == wouldCreateCycle(team[c], editingMember.id, editManagerId)
       IN /\ editManagerId \in managerOptions(team[c], editingMember)
          /\ \/ w = "true" /\ rejectEdit(c, editingMember, editRole, editManagerId)
             \/ w = "false" /\ commitEdit(c, editingMember, editRole, editManagerId)
             \/ w = "false" /\ failEdit(c, editingMember, editRole, editManagerId)

\* handleUpdateMember by a client whose list is the stored list
freshEdit(c, i, editRole, editManagerId) ==
    /\ team[c] = members
    /\ handleUpdateMember(c, i, editRole, editManagerId)

\* String.prototype.toLowerCase on the role texts in use
toLowerCase(r) == IF r = "Owner" THEN "owner" ELSE IF r = "Employee" THEN "employee" ELSE r

\* the owner looked up by the capitalised role text
findOwnerCapital(t) ==
    IF \E i \in DOMAIN t : t[i].role = "Owner"
    THEN CHOOSE i \in DOMAIN t :
             /\ t[i].role = "Owner"
             /\ \A j \in 1..(i-1) : t[j].role # "Owner"
    ELSE 0

\* line 316: team.find(m => m.role.toLowerCase() === 'owner'), 0 if none
findOwner(t) ==
    IF \E i \in DOMAIN t : toLowerCase(t[i].role) = "owner"
    THEN CHOOSE i \in DOMAIN t :
             /\ toLowerCase(t[i].role) = "owner"
             /\ \A j \in 1..(i-1) : toLowerCase(t[j].role) # "owner"
    ELSE 0

\* the orphans filter without its test of the manager pointer
orphansAll(t, owner) ==
    {t[i].id : i \in {j \in DOMAIN t :
        t[j].id # owner.id /\ toLowerCase(t[j].role) # "owner"}}

\* lines 319-323: the ids of the orphans
orphansOf(t, owner) ==
    {t[i].id : i \in {j \in DOMAIN t :
        /\ t[j].id # owner.id
        /\ t[j].manager_id = NULL
        /\ toLowerCase(t[j].role) # "owner"}}

\* the effect of lines 312-334 runs on the list just set, up to the start of
\* the updateMember calls of line 326
enforceHierarchy(c) ==
    /\ repair[c].state = "due"
    /\ LET k == findOwner(team[c])
           go == Len(team[c]) > 0 /\ canManage[c] /\ k # 0
                    /\ orphansOf(team[c], team[c][k]) # {}
       IN repair' = [repair EXCEPT ![c] =
              IF go THEN [state |-> "writing", owner |-> team[c][k].id,
                          orphans |-> orphansOf(team[c], team[c][k]),
                          failed |-> FALSE]
              ELSE EffectIdle]
    /\ UNCHANGED <<sysVars, canManage, passes, removal, funVars, joinVars, kanbanVars>>

\* the repair write clearing a pointer it finds set
repairWriteToggle(c, id) ==
    /\ repair[c].state = "writing"
    /\ id \in repair[c].orphans
    /\ LET k == findById(members, id)
           m == IF k # 0 /\ members[k].manager_id # NULL THEN NULL ELSE repair[c].owner
       IN members' = updateMember(members, id, m)
    /\ LET left == repair[c].orphans \ {id} IN
       /\ repair' = [repair EXCEPT ![c] =
              IF left = {} THEN EffectIdle ELSE [@ EXCEPT !.orphans = left]]
       /\ loading' = [loading EXCEPT ![c] =
              IF left = {} /\ ~repair[c].failed THEN TRUE ELSE @]
       /\ passes' = [passes EXCEPT ![c] =
              IF left = {} /\ ~repair[c].failed THEN @ + 1 ELSE @]
    /\ alert' = ""
    /\ UNCHANGED <<team, commits, nextId, canManage, removal, funVars, joinVars, kanbanVars>>

\* one updateMember(orphan.id, { manager_id: owner.id }) of line 327 reaches
\* the table; after the last one loadTeam() is started (line 329), unless a
\* call of the run was rejected: Promise.all then rejects and line 329 is
\* not reached
repairWrite(c, id) ==
    /\ repair[c].state = "writing"
    /\ id \in repair[c].orphans
    /\ members' = updateMember(members, id, repair[c].owner)
    /\ LET left == repair[c].orphans \ {id} IN
       /\ repair' = [repair EXCEPT ![c] =
              IF left = {} THEN EffectIdle ELSE [@ EXCEPT !.orphans = left]]
       /\ loading' = [loading EXCEPT ![c] =
              IF left = {} /\ ~repair[c].failed THEN TRUE ELSE @]
       /\ passes' = [passes EXCEPT ![c] =
              IF left = {} /\ ~repair[c].failed THEN @ + 1 ELSE @]
    /\ alert' = ""
    /\ UNCHANGED <<team, commits, nextId, canManage, removal, funVars, joinVars, kanbanVars>>

\* one updateMember of line 327 is rejected (teamService lines 118-127): the
\* row is not written
repairWriteFails(c, id) ==
    /\ repair[c].state = "writing"
    /\ id \in repair[c].orphans
    /\ LET left == repair[c].orphans \ {id} IN
       repair' = [repair EXCEPT ![c] =
           IF left = {} THEN EffectIdle ELSE [@ EXCEPT !.orphans = left, !.failed = TRUE]]
    /\ UNCHANGED <<sysVars, canManage, passes, removal, funVars, joinVars, kanbanVars>>

\* loadTeam when ensureOwnerMember returns at one of its early exits (lines
\* 466, 475, 485 of teamService): the table is not touched, the list is fetched
loadTeamOwnerSkipped(c) ==
    /\ loading[c]
    /\ team' = [team EXCEPT ![c] = uniqueTeam(fetchTeam(members))]
    /\ loading' = [loading EXCEPT ![c] = FALSE]
    /\ alert' = ""
    /\ repair' = [repair EXCEPT ![c] = IF @.state = "writing" THEN @ ELSE EffectDue]
    /\ joinRequests' = fetchJoinRequests(c)
    /\ UNCHANGED <<members, nextId, commits, canManage, passes, removal, funVars,
                   request, respond, kanbanVars>>

\* loadTeam when the promise of ensureOwnerMember is rejected (line 266 is
\* inside the try of line 264): lines 268-302 are skipped, the catch of line
\* 304 logs and the finally of line 306 ends the load; setTeam is not called
loadTeamOwnerThrows(c) ==
    /\ loading[c]
    /\ loading' = [loading EXCEPT ![c] = FALSE]
    /\ alert' = ""
    /\ UNCHANGED <<members, team, nextId, commits, pageVars, funVars, joinVars, kanbanVars>>

DeleteOwnerError == "Cannot delete the organization owner"

\* handleDelete lines 504-517 on a listed member; removeMember, then loadTeam
handleDelete(c, i) ==
    /\ canManage[c]
    /\ i \in DOMAIN team[c]
    /\ LET member == team[c][i] IN
       \/ /\ member.role = "owner"
          /\ alert' = DeleteOwnerError
          /\ UNCHANGED <<members, team, loading, commits, nextId, pageVars, funVars, joinVars, kanbanVars>>
       \/ /\ member.role # "owner"
          /\ members' = onDelete(removeMember(members, member.id), {member.id})
          /\ removal' = [ids |-> removal.ids \cup
                                     ({member.id} \cap Ids(members)),
                         subs |-> removal.subs \cup
                              {members[j].id : j \in {k \in DOMAIN members :
                                                 members[k].manager_id = member.id}}]
          /\ loading' = [loading EXCEPT ![c] = TRUE]
          /\ alert' = ""
          /\ UNCHANGED <<team, commits, nextId, canManage, repair, passes, funVars, joinVars, kanbanVars>>

\* handleAdd lines 466-500: the invited member reports to the listed owner
handleAdd(c, newRole) ==
    /\ canManage[c]
    /\ LET owner == {i \in DOMAIN team[c] : team[c][i].role = "owner"}
           first == CHOOSE i \in owner : \A j \in owner : i <= j
           manager_id == IF owner = {} THEN NULL ELSE team[c][first].id
       IN members' = createMember(members, nextId, newRole, manager_id)
    /\ nextId' = nextId + 1
    /\ loading' = [loading EXCEPT ![c] = TRUE]
    /\ alert' = ""
    /\ UNCHANGED <<team, commits, pageVars, funVars, joinVars, kanbanVars>>

\* the page is opened again (the effect of lines 337-346)
mount(c) ==
    /\ ~loading[c]
    /\ loading' = [loading EXCEPT ![c] = TRUE]
    /\ UNCHANGED <<members, team, alert, commits, nextId, pageVars, funVars, joinVars, kanbanVars>>

\* the account that asked to join the organization
Requester == MaxShared + 1

\* respondToJoinRequest lines 410-427: the owner's member id, found by
\* .single() on the rows of the owner account, null when there is not
\* exactly one
ownerMemberId(t) ==
    LET rows == {i \in DOMAIN t : t[i].user_id = OwnerAccount}
    IN IF Cardinality(rows) = 1 THEN t[CHOOSE i \in rows : TRUE].id ELSE NULL

\* respondToJoinRequest(requestId, 'rejected') lines 381-388 and the refetch
\* of handleRespondToRequest lines 455-456
rejectRequest(c) ==
    /\ request' = "rejected"
    /\ joinRequests' = [joinRequests EXCEPT ![c] = FALSE]
    /\ alert' = ""
    /\ UNCHANGED <<members, team, loading, commits, nextId, pageVars, respond,
                   kanbanVars, funVars>>

\* respondToJoinRequest(requestId, 'approved') lines 391-441: the request row
\* is read (its status is not looked at), the member row is inserted
approveInsert(c) ==
    /\ request # "none"
    /\ members' = Append(members, Member(nextId, Requester, display_name(Requester),
                                         "Employee", ownerMemberId(members)))
    /\ nextId' = nextId + 1
    /\ respond' = [respond EXCEPT ![c] = "inserted"]
    /\ alert' = ""
    /\ UNCHANGED <<team, loading, commits, pageVars, request, joinRequests,
                   kanbanVars, funVars>>

\* respondToJoinRequest lines 443-447, then handleRespondToRequest lines
\* 455-458: the request is marked approved, the requests are fetched again
\* and loadTeam() is started
approveUpdate(c) ==
    /\ respond[c] = "inserted"
    /\ request' = "approved"
    /\ respond' = [respond EXCEPT ![c] = "idle"]
    /\ joinRequests' = [joinRequests EXCEPT ![c] = FALSE]
    /\ loading' = [loading EXCEPT ![c] = TRUE]
    /\ alert' = ""
    /\ UNCHANGED <<members, team, commits, nextId, pageVars, kanbanVars, funVars>>

\* a button of the request shown in the list of client c
handleRespondToRequest(c, status) ==
    /\ joinRequests[c]
    /\ respond[c] = "idle"
    /\ \/ status = "rejected" /\ rejectRequest(c)
       \/ status = "approved" /\ approveInsert(c)

\* ---------------------------------------------- AnalyticsPage (KanbanPage)
COLUMNS == {"new", "progress", "review", "done"}
OnlyCreatorError == "onlyCreatorCanComplete"

\* line 241: currentOrg?.role === 'owner' for the signed-in user
isOrgOwner(u) == u = OwnerAccount

\* handleDrop without the restriction of lines 292-299
handleDropUnchecked(u, status) ==
    /\ pending[u] = "none"
    /\ tasks' = [tasks EXCEPT ![u].status = status]
    /\ pending' = [pending EXCEPT ![u] = status]
    /\ alert' = ""
    /\ UNCHANGED <<members, team, loading, commits, nextId, pageVars, joinVars,
                   storedTask, funVars>>

\* handleDragStart and handleDrop lines 284-310: user u drags the card onto
\* column `status`; up to the start of the updateTask call
handleDrop(u, status) ==
    /\ pending[u] = "none"
    /\ IF status = "done" /\ ~isOrgOwner(u) /\ tasks[u].creator_id # u
       THEN /\ alert' = OnlyCreatorError
            /\ UNCHANGED <<tasks, pending>>
       ELSE /\ tasks' = [tasks EXCEPT ![u].status = status]
            /\ pending' = [pending EXCEPT ![u] = status]
            /\ alert' = ""
    /\ UNCHANGED <<members, team, loading, commits, nextId, pageVars, joinVars,
                   storedTask, funVars>>

\* lines 573-600: the transitions the card of user u offers as buttons; the
\* member row of user u carries the name display_name(u)
cardActions(u) ==
    LET t == tasks[u]
        mine == \/ t.assignee_id = u
                \/ (t.assignee_id = NULL /\ t.assignee = display_name(u))
    IN {s \in COLUMNS :
          \/ s = "progress" /\ t.status = "new" /\ mine
          \/ s = "review" /\ t.status = "progress" /\ mine
          \/ s = "done" /\ t.status = "review" /\ t.creator_id = u}

\* handleTransition lines 365-384, from a button of the card; up to the start
\* of the updateTask call
handleTransition(u, newStatus) ==
    /\ pending[u] = "none"
    /\ newStatus \in cardActions(u)
    /\ tasks' = [tasks EXCEPT ![u].status = newStatus]
    /\ pending' = [pending EXCEPT ![u] = newStatus]
    /\ alert' = ""
    /\ UNCHANGED <<members, team, loading, commits, nextId, pageVars, joinVars,
                   storedTask, funVars>>

\* taskService.updateTask(id, { status }) reaches the table
updateTask(u) ==
    /\ pending[u] # "none"
    /\ storedTask' = [storedTask EXCEPT !.status = pending[u]]
    /\ pending' = [pending EXCEPT ![u] = "none"]
    /\ alert' = ""
    /\ UNCHANGED <<members, team, loading, commits, nextId, pageVars, joinVars,
                   tasks, funVars>>

\* updateTask is rejected: the catch of lines 306-309 (380-383) calls
\* loadData(), which replaces the optimistic copy by the stored row
updateTaskFails(u) ==
    /\ pending[u] # "none"
    /\ pending' = [pending EXCEPT ![u] = "none"]
    /\ tasks' = [tasks EXCEPT ![u] = storedTask]
    /\ alert' = ""
    /\ UNCHANGED <<members, team, loading, commits, nextId, pageVars, joinVars,
                   storedTask, funVars>>

\* KanbanPage.loadData lines 244-280: the page is opened again
loadData(u) ==
    /\ pending[u] = "none"
    /\ tasks' = [tasks EXCEPT ![u] = storedTask]
    /\ alert' = ""
    /\ UNCHANGED <<members, team, loading, commits, nextId, pageVars, joinVars,
                   storedTask, pending, funVars>>

NoCall == [op |-> "none"]

\* row i carries id i and account i; any role text, any pointer to another row
RoleList(n, rs, mg) ==
    [i \in 1..n |-> Member(i, i, display_name(i), rs[i], mg[i])]

\* the table holds a forest of n rows, every pointer null or a listed row
InitTable(n) ==
    /\ \E mg \in [1..n -> 0..n] :
           /\ IsForest(GraphList(n, mg))
           /\ members = GraphList(n, mg)
    /\ team = [c \in Clients |-> <<>>]
    /\ alert = ""
    /\ loading = [c \in Clients |-> TRUE]
    /\ commits = [c \in Clients |-> 0]
    /\ nextId = Gone + 1
    /\ canManage = [c \in Clients |-> TRUE]
    /\ repair = [c \in Clients |-> EffectIdle]
    /\ passes = [c \in Clients |-> 0]
    /\ removal = NoRemoval
    /\ NoKanban

\* the table holds a forest of n rows and no join request
InitSys(n) == InitTable(n) /\ NoJoin

NoInput ==
    /\ list = <<>>
    /\ args = NoCall
    /\ ret = NoCall

Init == InitSys(MaxShared) /\ NoInput

\* two clients on the team page of the same organization
Next ==
    \E c \in Clients :
        \/ loadTeam(c)
        \/ /\ Explicit < MaxEdits
           /\ \E i \in 1..MaxShared, r \in Roles, v \in 0..MaxShared :
                  handleUpdateMember(c, i, r, v)

Spec == Init /\ [][Next]_vars

\* -- the whole team page: two clients that load, reconcile, edit, remove and
\* invite
NextTeam ==
    \E c \in Clients :
        \/ loadTeam(c)
        \/ enforceHierarchy(c)
        \/ \E id \in Ids(members) : repairWrite(c, id)
        \/ /\ Explicit < MaxTeamOps
           /\ \E i \in DOMAIN team[c], r \in Roles, v \in {NULL} \cup Ids(team[c]) :
                  handleUpdateMember(c, i, r, v)
        \/ /\ Explicit < MaxTeamOps
           /\ \E i \in DOMAIN team[c] : handleDelete(c, i)
        \/ /\ Explicit < MaxTeamOps
           /\ \E r \in Roles : handleAdd(c, r)

\* the organization as it is created: the owner's row has no manager
InitTeam ==
    /\ InitSys(MaxShared)
    /\ members[1].manager_id = NULL
    /\ NoInput

SpecTeam == InitTeam /\ [][NextTeam]_vars

\* -- one client that keeps opening the page, with its explicit edits.  Every
\* call that was started completes, and the page is opened again and again.
NextLive ==
    \/ loadTeam("c1")
    \/ enforceHierarchy("c1")
    \/ \E id \in Ids(members) : repairWrite("c1", id)
    \/ mount("c1")
    \/ /\ Explicit < MaxEdits
       /\ \E i \in DOMAIN team["c1"], r \in Roles, v \in {NULL} \cup Ids(team["c1"]) :
              handleUpdateMember("c1", i, r, v)

FairLive ==
    /\ WF_vars(loadTeam("c1"))
    /\ WF_vars(enforceHierarchy("c1"))
    /\ WF_vars(\E id \in Ids(members) : repairWrite("c1", id))
    /\ WF_vars(mount("c1"))

SpecLive == InitTeam /\ [][NextLive]_vars /\ FairLive

\* -- one client that edits only while its page shows the stored list and the
\* reconciliation of that list is over
NextSolo ==
    \/ loadTeam("c1")
    \/ enforceHierarchy("c1")
    \/ \E id \in Ids(members) : repairWrite("c1", id)
    \/ /\ ~loading["c1"] /\ repair["c1"].state = "idle"
       /\ commits["c1"] < MaxSoloEdits
       /\ \E i \in DOMAIN team["c1"], r \in Roles, v \in {NULL} \cup Ids(team["c1"]) :
              handleUpdateMember("c1", i, r, v)

SpecSolo == InitTeam /\ [][NextSolo]_vars

\* -- a join request: an account asks to join, two clients that manage the
\* team have the page open
InitJoin ==
    /\ InitTable(MaxShared)
    /\ members[1].manager_id = NULL
    /\ request = "pending"
    /\ joinRequests = [c \in Clients |-> FALSE]
    /\ respond = [c \in Clients |-> "idle"]
    /\ NoInput

NextJoin ==
    \E c \in Clients :
        \/ loadTeam(c)
        \/ enforceHierarchy(c)
        \/ \E id \in Ids(members) : repairWrite(c, id)
        \/ \E status \in {"approved", "rejected"} : handleRespondToRequest(c, status)
        \/ approveUpdate(c)

SpecJoin == InitJoin /\ [][NextJoin]_vars

\* -- reconciliation on its own: two clients that can manage the team open
\* the page, nobody edits
InitRepair ==
    /\ \E rs \in [1..MaxRepairMembers -> Roles],
          mg \in [1..MaxRepairMembers -> 0..MaxRepairMembers] :
           /\ \A i \in 1..MaxRepairMembers : mg[i] # i
           /\ members = RoleList(MaxRepairMembers, rs, mg)
    /\ team = [c \in Clients |-> <<>>]
    /\ alert = ""
    /\ loading = [c \in Clients |-> TRUE]
    /\ commits = [c \in Clients |-> 0]
    /\ nextId = MaxRepairMembers + 1
    /\ canManage = [c \in Clients |-> TRUE]
    /\ repair = [c \in Clients |-> EffectIdle]
    /\ passes = [c \in Clients |-> 0]
    /\ removal = NoRemoval
    /\ NoJoin
    /\ NoKanban
    /\ NoInput

NextRepair ==
    \E c \in Clients :
        \/ loadTeam(c)
        \/ enforceHierarchy(c)
        \/ \E id \in 1..MaxRepairMembers : repairWrite(c, id)

SpecRepair == InitRepair /\ [][NextRepair]_vars

\* -- loads whose reconciliation steps can fail: two clients open the page
NextLoad ==
    \E c \in Clients :
        \/ loadTeam(c)
        \/ loadTeamOwnerSkipped(c)
        \/ loadTeamOwnerThrows(c)
        \/ enforceHierarchy(c)
        \/ \E id \in 1..MaxRepairMembers : repairWrite(c, id)
        \/ \E id \in 1..MaxRepairMembers : repairWriteFails(c, id)

\* any role text and pointer; a later row may be a second row of the owner
\* account, which ensureOwnerMember deletes
InitLoad ==
    /\ \E rs \in [1..MaxRepairMembers -> Roles],
          mg \in [1..MaxRepairMembers -> 0..MaxRepairMembers],
          us \in [1..MaxRepairMembers -> 1..MaxRepairMembers] :
           /\ \A i \in 1..MaxRepairMembers : mg[i] # i /\ us[i] \in {i, OwnerAccount}
           /\ members = [i \in 1..MaxRepairMembers |->
                            Member(i, us[i], display_name(us[i]), rs[i], mg[i])]
    /\ team = [c \in Clients |-> <<>>]
    /\ alert = ""
    /\ loading = [c \in Clients |-> TRUE]
    /\ commits = [c \in Clients |-> 0]
    /\ nextId = MaxRepairMembers + 1
    /\ canManage = [c \in Clients |-> TRUE]
    /\ repair = [c \in Clients |-> EffectIdle]
    /\ passes = [c \in Clients |-> 0]
    /\ removal = NoRemoval
    /\ NoJoin
    /\ NoKanban
    /\ NoInput

SpecLoad == InitLoad /\ [][NextLoad]_vars

\* one client, every edit made on the list as stored
NextEdit ==
    \/ loadTeam("c1")
    \/ /\ Explicit < MaxEdits
       /\ \E i \in MemberIds, r \in Roles, v \in {NULL} \cup MemberIds :
              freshEdit("c1", i, r, v)

InitEdit == InitSys(MaxMembers) /\ NoInput

SpecEdit == InitEdit /\ [][NextEdit]_vars

\* -- removal: one client removes members from a forest whose first row is
\* the owner, and reconciles
NextRemove ==
    \/ loadTeam("c1")
    \/ enforceHierarchy("c1")
    \/ \E id \in MemberIds : repairWrite("c1", id)
    \/ /\ Cardinality(removal.ids) < MaxRemovals
       /\ \E i \in MemberIds : handleDelete("c1", i)

SpecRemove == InitEdit /\ [][NextRemove]_vars

\* ------------------------------------------------ the functions on their own
\* no page is open and the table is empty while a function is applied
IdlePage ==
    /\ members = <<>>
    /\ team = [c \in Clients |-> <<>>]
    /\ alert = ""
    /\ loading = [c \in Clients |-> FALSE]
    /\ commits = [c \in Clients |-> 0]
    /\ nextId = 1
    /\ canManage = [c \in Clients |-> FALSE]
    /\ repair = [c \in Clients |-> EffectIdle]
    /\ passes = [c \in Clients |-> 0]
    /\ removal = NoRemoval
    /\ NoJoin

IdleSys == IdlePage /\ NoKanban

\* -- the Kanban board: one task, created with status new, on the boards of
\* the owner and two members; every board shows the card
InitKanban ==
    /\ IdlePage
    /\ \E creator \in KanbanUsers, aid \in {NULL} \cup KanbanUsers, an \in {"a", "b"} :
           storedTask = [creator_id |-> creator, assignee_id |-> aid,
                         assignee |-> an, status |-> "new"]
    /\ tasks = [u \in KanbanUsers |-> storedTask]
    /\ pending = [u \in KanbanUsers |-> "none"]
    /\ NoInput

NextKanban ==
    \E u \in KanbanUsers :
        \/ \E status \in COLUMNS : handleDrop(u, status)
        \/ \E newStatus \in COLUMNS : handleTransition(u, newStatus)
        \/ updateTask(u)
        \/ updateTaskFails(u)
        \/ loadData(u)

SpecKanban == InitKanban /\ [][NextKanban]_vars

\* members below id: those that reach id by following manager pointers
Descendants(t, id) == {m \in Ids(t) : id \in Ancestors(t, m)}

\* Each behaviour draws one argument list and applies one function to it once.

\* -- wouldCreateCycle and getAllSubordinates over every pointer graph
InitGraph ==
    /\ IdleSys
    /\ \E n \in 1..MaxMembers : \E mg \in [1..n -> {NULL, Gone} \cup (1..n)] :
           list = GraphList(n, mg)
    /\ args = NoCall
    /\ ret = NoCall

callWouldCreateCycle(targetId, newManagerId) ==
    /\ args = NoCall
    /\ args' = [op |-> "wouldCreateCycle", targetId |-> targetId,
                newManagerId |-> newManagerId]
    /\ ret' = wouldCreateCycle(list, targetId, newManagerId)
    /\ UNCHANGED <<list, sysVars, pageVars, joinVars, kanbanVars>>

callGetAllSubordinates(memberId) ==
    /\ args = NoCall
    /\ args' = [op |-> "getAllSubordinates", memberId |-> memberId]
    /\ ret' = getAllSubordinates(list, memberId)
    /\ UNCHANGED <<list, sysVars, pageVars, joinVars, kanbanVars>>

NextGraph ==
    \/ \E a \in MemberIds \cup {Gone}, b \in {NULL, Gone} \cup MemberIds :
           callWouldCreateCycle(a, b)
    \/ \E a \in MemberIds \cup {Gone} : callGetAllSubordinates(a)

SpecGraph == InitGraph /\ [][NextGraph]_vars

\* -- the viewer functions over lists with accounts and names
AccountIds == 1..MaxAccounts
NameOf(i) == IF i % 2 = 1 THEN "a" ELSE "b"

\* row i carries id i; its account is null (invited) or any account, two rows
\* may carry the same account and the same name
ViewList(n, us, mg) ==
    [i \in 1..n |-> Member(i, us[i], NameOf(i),
                           IF i = 1 THEN "owner" ELSE "Employee", mg[i])]

InitView ==
    /\ IdleSys
    /\ \E n \in 1..MaxViewMembers :
           \E us \in [1..n -> {NULL} \cup AccountIds], mg \in [1..n -> 0..n] :
               list = ViewList(n, us, mg)
    /\ args = NoCall
    /\ ret = NoCall

callGetEligibleAssignees(currentUserId) ==
    /\ args = NoCall
    /\ args' = [op |-> "getEligibleAssignees", currentUserId |-> currentUserId]
    /\ ret' = getEligibleAssignees(list, currentUserId)
    /\ UNCHANGED <<list, sysVars, pageVars, joinVars, kanbanVars>>

callGetVisibleAssigneeNames(currentUserId) ==
    /\ args = NoCall
    /\ args' = [op |-> "getVisibleAssigneeNames", currentUserId |-> currentUserId]
    /\ ret' = getVisibleAssigneeNames(list, currentUserId)
    /\ UNCHANGED <<list, sysVars, pageVars, joinVars, kanbanVars>>

callGetVisibleUserIds(currentUserId) ==
    /\ args = NoCall
    /\ args' = [op |-> "getVisibleUserIds", currentUserId |-> currentUserId]
    /\ ret' = getVisibleUserIds(list, currentUserId)
    /\ UNCHANGED <<list, sysVars, pageVars, joinVars, kanbanVars>>

NextView ==
    \/ \E u \in AccountIds : callGetEligibleAssignees(u)
    \/ \E u \in AccountIds : callGetVisibleAssigneeNames(u)
    \/ \E u \in AccountIds : callGetVisibleUserIds(u)

SpecView == InitView /\ [][NextView]_vars

\* -- the task filters of the Overview and Calendar pages
Tasks ==
    {[assignee_id |-> a, assignee |-> n] : a \in {NULL} \cup AccountIds, n \in {"a", "b"}}

\* one render of the three pages for the same viewer, team and task
renderTask(user, isOwner, task) ==
    /\ args = NoCall
    /\ args' = [op |-> "renderTask", user |-> user, isOwner |-> isOwner, task |-> task]
    /\ ret' = [overview |-> visibleTasks(list, user, isOwner, task),
               calendar |-> isVisible(list, user, isOwner, task),
               kanban |-> columnTasks(list, user, isOwner, task)]
    /\ UNCHANGED <<list, sysVars, pageVars, joinVars, kanbanVars>>

\* The signed-in account is account 1: rows and tasks range over every account
\* and no function treats one account id differently from another, so each
\* other viewer is this one under a renaming of the accounts.
NextTasks == \E o \in BOOLEAN, k \in Tasks : renderTask(1, o, k)

SpecTasks == InitView /\ [][NextTasks]_vars

\* -- ensureOwnerMember on its own, over tables with accounts
callEnsureOwnerMember ==
    /\ args = NoCall
    /\ args' = [op |-> "ensureOwnerMember"]
    /\ ret' = ensureOwnerMember(list, MaxViewMembers + 1)
    /\ UNCHANGED <<list, sysVars, pageVars, joinVars, kanbanVars>>

NextOwner == callEnsureOwnerMember

SpecOwner == InitView /\ [][NextOwner]_vars

\* -- the viewer functions over lists whose role labels vary: row i belongs
\* to account i, any role, any pointer
InitRoles ==
    /\ IdleSys
    /\ \E n \in 1..MaxRoleMembers :
           \E rs \in [1..n -> Roles], mg \in [1..n -> 0..n] :
               list = RoleList(n, rs, mg)
    /\ args = NoCall
    /\ ret = NoCall

NextRoles ==
    \/ \E u \in 1..MaxRoleMembers : callGetEligibleAssignees(u)
    \/ \E u \in 1..MaxRoleMembers : callGetVisibleAssigneeNames(u)
    \/ \E u \in 1..MaxRoleMembers : callGetVisibleUserIds(u)

SpecRoles == InitRoles /\ [][NextRoles]_vars

\* -- getAllSubordinates over the forests of up to MaxOrderMembers rows
InitOrder ==
    /\ IdleSys
    /\ \E n \in 1..MaxOrderMembers : \E mg \in [1..n -> 0..n] :
           /\ IsForest(GraphList(n, mg))
           /\ list = GraphList(n, mg)
    /\ args = NoCall
    /\ ret = NoCall

NextOrder == \E a \in 1..MaxOrderMembers : callGetAllSubordinates(a)

SpecOrder == InitOrder /\ [][NextOrder]_vars

\* ================================================================ claims
Op(name) == args.op = name
ViewOps == {"getEligibleAssignees", "getVisibleAssigneeNames", "getVisibleUserIds"}
Range(seq) == {seq[i] : i \in DOMAIN seq}

C2_CycleCheckExact ==
    (/\ Op("wouldCreateCycle")
     /\ IsForest(list)
     /\ args.targetId \in Ids(list)
     /\ args.newManagerId \in Ids(list))
    => /\ ret \in {"true", "false"}
       /\ (ret = "true") = HasCycle(WithManager(list, args.targetId, args.newManagerId))
       /\ (ret = "true") = (\/ args.newManagerId = args.targetId
                            \/ args.targetId \in Ancestors(list, args.newManagerId))

\* the chain 3 -> 2 -> 1: pointing 1 at its descendant 3 is refused
C2_Witness ==
    /\ Op("wouldCreateCycle")
    /\ Len(list) = 3
    /\ list[1].manager_id = NULL /\ list[2].manager_id = 1 /\ list[3].manager_id = 2
    /\ args.targetId = 1 /\ args.newManagerId = 3
    /\ ret = "true"

\* C3 (as claimed): two clients that loaded the same forest and each committed
\* one edit accepted against its own list leave the stored graph without cycle.
C3_ConcurrentEditsKeepForest ==
    (/\ team["c1"] = team["c2"]
     /\ Len(team["c1"]) > 0
     /\ IsForest(team["c1"])
     /\ commits["c1"] = 1 /\ commits["c2"] = 1)
    => IsForest(members)

\* C4: on a forest, getAllSubordinates(team, R) returns every member that
\* reaches R through manager pointers exactly once, and nothing else (not R).
C4_SubtreeExact ==
    (Op("getAllSubordinates") /\ IsForest(list) /\ args.memberId \in Ids(list))
    => /\ ~Throws(ret)
       /\ {ret[i].id : i \in DOMAIN ret} = Descendants(list, args.memberId)
       /\ Len(ret) = Cardinality(Descendants(list, args.memberId))
       /\ \A i \in DOMAIN ret : ret[i] = list[findById(list, ret[i].id)]
       /\ \A i \in DOMAIN ret : ret[i].id # args.memberId

\* root 1 with report 2 and 2's report 3: both are returned
C4_Witness ==
    /\ Op("getAllSubordinates")
    /\ Len(list) = 3
    /\ list[1].manager_id = NULL /\ list[2].manager_id = 1 /\ list[3].manager_id = 2
    /\ args.memberId = 1
    /\ ret = <<list[2], list[3]>>

\* C5: on a forest, for a viewer whose member row has a manager,
\* getEligibleAssignees is the viewer's row followed by getAllSubordinates of
\* the viewer: never the viewer's manager, an ancestor, a sibling or any
\* member outside the viewer's subtree.
C5_SubordinateScoping ==
    (Op("getEligibleAssignees") /\ IsForest(list))
    => LET k == findByUserId(list, args.currentUserId) IN
       (k # 0 /\ list[k].manager_id # NULL)
       => LET viewer == list[k]
              subtree == {viewer.id} \cup Descendants(list, viewer.id)
          IN /\ ~Throws(ret)
             /\ ret = <<viewer>> \o getAllSubordinates(list, viewer.id)
             /\ {ret[i].id : i \in DOMAIN ret} = subtree
             /\ Len(ret) = Cardinality(subtree)
             /\ \A i \in DOMAIN ret :
                   /\ ret[i].id # viewer.manager_id
                   /\ ret[i].id \notin Ancestors(list, viewer.id)
                   /\ (ret[i].manager_id = viewer.manager_id => ret[i] = viewer)

\* the viewer is row 2, reporting to row 1, with row 3 below
C5_Witness ==
    /\ Op("getEligibleAssignees")
    /\ Len(list) = 3
    /\ list[1].manager_id = NULL /\ list[2].manager_id = 1 /\ list[3].manager_id = 2
    /\ list[2].user_id = args.currentUserId
    /\ list[1].user_id # args.currentUserId
    /\ ret = <<list[2], list[3]>>

\* C6: when the viewer's row has a null manager pointer, the three functions
\* return the whole list (projected to names, to account ids), whatever the
\* tree below the viewer.
C6_RootSeesAll ==
    (args.op \in ViewOps)
    => LET k == findByUserId(list, args.currentUserId) IN
       (k # 0 /\ list[k].manager_id = NULL)
       => /\ Op("getEligibleAssignees") => ret = list
          /\ Op("getVisibleAssigneeNames") => ret = [i \in DOMAIN list |-> list[i].name]
          /\ Op("getVisibleUserIds") => ret = [i \in DOMAIN list |-> list[i].user_id]

\* the viewer is row 3, top-level, and nobody reports to it
C6_Witness ==
    /\ Op("getVisibleUserIds")
    /\ Len(list) = 3
    /\ list[3].user_id = args.currentUserId
    /\ list[1].user_id # args.currentUserId /\ list[2].user_id # args.currentUserId
    /\ list[3].manager_id = NULL
    /\ list[1].manager_id # 3 /\ list[2].manager_id = 1
    /\ ret = <<list[1].user_id, list[2].user_id, list[3].user_id>>

\* C7: when no row carries the viewer's account (invited rows with a null
\* account included), the three functions return the empty list, no error.
C7_UnknownViewerEmpty ==
    (args.op \in ViewOps /\ findByUserId(list, args.currentUserId) = 0)
    => ret = <<>>

\* every row is an invited placeholder
C7_Witness ==
    /\ Op("getVisibleAssigneeNames")
    /\ Len(list) = 3
    /\ \A i \in DOMAIN list : list[i].user_id = NULL
    /\ ret = <<>>

\* C8: on Overview and Calendar a task is visible iff the viewer is the
\* owner, or the assignee id is the viewer's account, or the task has an
\* assignee id that is in getVisibleUserIds, or it has none and its assignee
\* name is in getVisibleAssigneeNames; a name match alone never shows a task
\* that carries an assignee id.  (Renders in which the hierarchy functions
\* overflow the stack show nothing and are left out.)
C8_TaskVisibility ==
    Op("renderTask")
    => LET ids == getVisibleUserIds(list, args.user)
           names == getVisibleAssigneeNames(list, args.user)
           aid == args.task.assignee_id
           expected == \/ args.isOwner
                       \/ aid = args.user
                       \/ (aid # NULL /\ aid \in Range(ids))
                       \/ (aid = NULL /\ args.task.assignee \in Range(names))
       IN (ids # <<0 - 1>>)
          => /\ ret.overview = expected
             /\ ret.calendar = expected
             /\ (/\ aid # NULL /\ aid # args.user /\ ~args.isOwner
                 /\ aid \notin Range(ids))
                => (~ret.overview /\ ~ret.calendar)

\* the assignee's name is visible, the assignee's account is not
C8_Witness ==
    /\ Op("renderTask")
    /\ ~args.isOwner
    /\ args.task.assignee_id \notin {NULL, args.user}
    /\ args.task.assignee \in Range(getVisibleAssigneeNames(list, args.user))
    /\ ~(args.task.assignee_id \in Range(getVisibleUserIds(list, args.user)))
    /\ ~ret.overview /\ ~ret.calendar

\* C9: an edit refused by wouldCreateCycle issues no write: the stored rows
\* are the same after the refusal as before it.
C9_RejectedEditWritesNothing ==
    [][(alert' = CircularError) => members' = members]_vars

\* after a committed edit, an edit of the full list was refused
C9_Witness ==
    alert = CircularError /\ Len(team["c1"]) = MaxMembers /\ commits["c1"] >= 1

Repaired(t) ==
    LET k == findOwner(t) IN
    [i \in DOMAIN t |->
        IF t[i].manager_id = NULL /\ toLowerCase(t[i].role) # "owner"
        THEN [t[i] EXCEPT !.manager_id = t[k].id]
        ELSE t[i]]

\* client c has finished the writes of a run and has not reloaded yet
RanOn(c) == passes[c] >= 1 /\ loading[c] /\ repair[c].state = "idle"

\* C11: a run of enforceHierarchy on a loaded list with an owner sets the
\* manager pointer of every orphan (no owner role, null pointer) to the
\* owner's id and leaves every other row, the owner among them, unchanged.
C11_OrphansGoToOwner ==
    \A c \in Clients : RanOn(c) => members = Repaired(team[c])

\* a run has re-attached an orphan and left a row with another manager alone
C11_Witness ==
    \E c \in Clients :
        /\ RanOn(c)
        /\ Cardinality({i \in DOMAIN members :
               team[c][i].manager_id = NULL /\ members[i].manager_id # NULL}) >= 1
        /\ \E i \in DOMAIN members :
               team[c][i].manager_id \notin {NULL, team[c][findOwner(team[c])].id}
        /\ members # team[c]

\* C12: a run of enforceHierarchy on the list a finished run produced issues
\* no write: a client that has completed a writing run never starts another.
C12_RepairIdempotent ==
    \A c \in Clients : (passes[c] >= 1) => /\ repair[c].state # "writing"
                                            /\ passes[c] = 1

\* a client ran the effect again on the list its own run produced
C12_Witness ==
    \E c \in Clients :
        /\ passes[c] = 1
        /\ ~loading[c]
        /\ repair[c].state = "idle"
        /\ team[c] = members
        /\ \E i \in DOMAIN members : members[i].manager_id # NULL

\* C13: whatever explicit edits another client makes between the read and the
\* writes of a run of enforceHierarchy, each write of the run finds the stored
\* pointer of its row null: the run never replaces a pointer that is set.
C13_RepairOnlyFillsNull ==
    [][\A c \in Clients :
          (repair[c].state = "writing" /\ repair'[c] # repair[c]) =>
              \A id \in repair[c].orphans \ repair'[c].orphans :
                  LET k == findById(members, id)
                  IN (k # 0) => members[k].manager_id = NULL]_vars

\* C14: two runs of enforceHierarchy started by two clients on the same loaded
\* list, their writes interleaved in any order, leave the table as one run does.
C14_ConcurrentRepairsConverge ==
    (RanOn("c1") /\ RanOn("c2") /\ team["c1"] = team["c2"])
        => members = Repaired(team["c1"])

\* both clients have written for the same two orphans
C14_Witness ==
    /\ RanOn("c1") /\ RanOn("c2")
    /\ team["c1"] = team["c2"]
    /\ Cardinality({i \in DOMAIN members :
           team["c1"][i].manager_id = NULL /\ members[i].manager_id # NULL}) >= 2

\* C15: ensureOwnerMember keeps the earliest row of the owner account and
\* deletes the later ones, deletes no row of another account, deletes nothing
\* when there is one such row, and inserts exactly one row (role owner, null
\* manager pointer) when there is none.
C15_OwnerRowKeptOnce ==
    Op("ensureOwnerMember") =>
        LET own == {i \in DOMAIN list : list[i].user_id = OwnerAccount}
            first == CHOOSE i \in own : \A j \in own : i <= j
            keptIds == {ret[i].id : i \in DOMAIN ret}
        IN IF own = {}
           THEN /\ Len(ret) = Len(list) + 1
                /\ SubSeq(ret, 1, Len(list)) = list
                /\ ret[Len(ret)].user_id = OwnerAccount
                /\ ret[Len(ret)].role = "owner"
                /\ ret[Len(ret)].manager_id = NULL
                /\ ret[Len(ret)].id \notin Ids(list)
           ELSE /\ keptIds = Ids(list) \ {list[i].id : i \in own \ {first}}
                /\ Len(ret) = Cardinality(keptIds)
                /\ \A i \in DOMAIN ret :
                       LET k == findById(list, ret[i].id) IN
                       /\ ret[i] = [list[k] EXCEPT !.name = ret[i].name]
                       /\ (k # first) => ret[i] = list[k]

\* several rows of the owner account were found after a row of another account
C15_Witness ==
    /\ Op("ensureOwnerMember")
    /\ Cardinality({i \in DOMAIN list : list[i].user_id = OwnerAccount}) >= 2
    /\ list[1].user_id # OwnerAccount
    /\ Len(ret) < Len(list)
    /\ Len(ret) >= 2

\* C16: wouldCreateCycle returns on every member list, lists with a pointer to
\* a missing member and lists that already hold a cycle included.
C16_CycleCheckTerminates ==
    Op("wouldCreateCycle") => ret \in {"true", "false"}

\* C17: in every reachable state of the organization exactly one member
\* carries the owner role, and that member's manager pointer is null.
C17_ExactlyOneOwner ==
    LET owners == {i \in DOMAIN members : toLowerCase(members[i].role) = "owner"}
    IN /\ Cardinality(owners) = 1
       /\ \A i \in owners : members[i].manager_id = NULL

\* a member without the owner role has no manager
HasOrphan ==
    \E i \in DOMAIN members :
        toLowerCase(members[i].role) # "owner" /\ members[i].manager_id = NULL

\* C18: whenever a non-owner member has a null manager pointer and the page
\* keeps being loaded, eventually every non-owner member has a manager.
C18_OrphansEventuallyRepaired == [](HasOrphan => <>(~HasOrphan))

\* the page of c1 shows the stored list and its reconciliation has nothing
\* left to do
Settled == ~loading["c1"] /\ repair["c1"].state = "idle"

\* C19: once the reconciliation that follows the removal of a manager is
\* done, every former subordinate of the removed member (the owner excepted,
\* who has nobody to report to) reports to the owner, and no manager pointer
\* references the removed member.
C19_SubordinatesReattached ==
    (removal.ids # {} /\ Settled) =>
        \A i \in DOMAIN members :
            /\ members[i].manager_id \notin removal.ids
            /\ (members[i].id \in removal.subs /\ members[i].role # "owner") =>
                   \E o \in DOMAIN members :
                       /\ members[o].role = "owner"
                       /\ members[i].manager_id = members[o].id

\* a member with a subordinate was removed and the subordinate now reports
\* to the owner
C19_Witness ==
    /\ removal.ids # {} /\ removal.subs # {}
    /\ Settled
    /\ passes["c1"] >= 1
    /\ \E i \in DOMAIN members :
           members[i].id \in removal.subs /\ members[i].manager_id = 1

\* C20: getVisibleUserIds is getEligibleAssignees projected to user_id and
\* getVisibleAssigneeNames is getEligibleAssignees projected to name, element
\* by element in the same order; the three throw on the same inputs.
C20_ProjectionsOfEligible ==
    (args.op \in {"getVisibleUserIds", "getVisibleAssigneeNames"}) =>
        LET e == getEligibleAssignees(list, args.currentUserId) IN
        IF Throws(e)
        THEN IF Op("getVisibleUserIds") THEN ret = <<0 - 1>> ELSE ret = <<"RangeError">>
        ELSE /\ Op("getVisibleUserIds") => ret = [i \in DOMAIN e |-> e[i].user_id]
             /\ Op("getVisibleAssigneeNames") => ret = [i \in DOMAIN e |-> e[i].name]

\* a non-root viewer with a subordinate got a projection of two or more entries
C20_Witness ==
    /\ args.op \in {"getVisibleUserIds", "getVisibleAssigneeNames"}
    /\ LET k == findByUserId(list, args.currentUserId) IN
       /\ k # 0
       /\ list[k].manager_id # NULL
    /\ Len(ret) >= 2
    /\ ~Throws(getEligibleAssignees(list, args.currentUserId))

\* the list with the role labels replaced by rs
Relabel(t, rs) == [i \in DOMAIN t |-> [t[i] EXCEPT !.role = rs[i]]]
IdsOf(seq) == [i \in DOMAIN seq |-> seq[i].id]

\* C21: the results of the three viewer functions do not depend on the role
\* labels: on every list that differs from the given one in role labels only
\* they return the same members, names and account ids; a viewer with a null
\* manager pointer gets the whole list whatever its role, a viewer with the
\* owner role and a manager gets itself and its subtree only.
C21_RoleLabelsIgnored ==
    (args.op \in ViewOps) =>
        LET u == args.currentUserId
            k == findByUserId(list, u)
        IN /\ \A rs \in [DOMAIN list -> Roles] :
                  LET other == Relabel(list, rs) IN
                  /\ Op("getEligibleAssignees") =>
                         /\ IdsOf(getEligibleAssignees(other, u)) = IdsOf(ret)
                         /\ Throws(ret) \/ getEligibleAssignees(other, u) = Relabel(ret,
                                [i \in DOMAIN ret |-> rs[findById(list, ret[i].id)]])
                  /\ Op("getVisibleAssigneeNames") =>
                         getVisibleAssigneeNames(other, u) = ret
                  /\ Op("getVisibleUserIds") => getVisibleUserIds(other, u) = ret
           /\ (k # 0 /\ list[k].manager_id = NULL) => Len(ret) = Len(list)
           /\ (k # 0 /\ list[k].manager_id # NULL /\ ~Throws(subordinatesAt(list, list[k].id, 0)))
                  => Len(ret) = 1 + Cardinality(Descendants(list, list[k].id))

\* an Employee without a manager got the whole list
C21_Witness ==
    /\ Op("getEligibleAssignees")
    /\ Len(list) = MaxRoleMembers
    /\ list[2].user_id = args.currentUserId
    /\ list[2].role = "Employee" /\ list[2].manager_id = NULL
    /\ list[1].role = "owner" /\ list[1].manager_id = 2
    /\ ret = list

\* the member list of the example, before orphan repair: o1, m1, e1, e2
ExampleTeam == GraphList(4, <<NULL, 1, 2, NULL>>)

\* C22 (as claimed): on the example list after orphan repair,
\* getAllSubordinates(team, "o1") is [m1, e1, e2].
C22_ExampleOrder ==
    (Op("getAllSubordinates") /\ list = Repaired(ExampleTeam) /\ args.memberId = 1)
        => IdsOf(ret) = <<2, 3, 4>>

\* C22 (amended): on the example list after orphan repair,
\* getAllSubordinates(team, "o1") is [m1, e2, e1]: the direct reports m1 and
\* e2 in list order, then the subtree of m1.
C22_ExampleDirectsFirst ==
    (Op("getAllSubordinates") /\ list = Repaired(ExampleTeam) /\ args.memberId = 1)
        => ret = <<list[2], list[4], list[3]>>

\* the call was made on the repaired example list
C22_Witness ==
    /\ Op("getAllSubordinates")
    /\ list = Repaired(ExampleTeam)
    /\ list[4].manager_id = 1 /\ ExampleTeam[4].manager_id = NULL
    /\ args.memberId = 1
    /\ Len(ret) = 3

\* C23: a failure of a reconciliation step does not keep the member list
\* from being fetched and displayed: every load that ends leaves the page
\* with the list fetched from the table, and a rejected repair write leaves
\* the displayed list as it is.
C23_LoadSurvivesReconcileFailure ==
    [][\A c \in Clients :
          /\ (loading[c] /\ ~loading'[c]) => team'[c] = uniqueTeam(fetchTeam(members'))
          /\ (repair[c].state = "writing" /\ repair'[c] # repair[c] /\ members' = members)
                 => team'[c] = team[c]]_vars

\* C24: wouldCreateCycle(team, A, A) is true for every member list, lists
\* with cycles and dangling pointers included, and every member id A.
C24_SelfManagerRefused ==
    (Op("wouldCreateCycle") /\ args.newManagerId = args.targetId) => ret = "true"

\* A is a root of a list in which two other members form a cycle
C24_Witness ==
    /\ Op("wouldCreateCycle")
    /\ Len(list) = 3
    /\ list[1].manager_id = 2 /\ list[2].manager_id = 1 /\ list[3].manager_id = NULL
    /\ args.targetId = 3 /\ args.newManagerId = 3
    /\ ret = "true"

\* C25: wouldCreateCycle(team, anyId, null) is false for every member list
\* and every target id, so an edit that clears a manager pointer is never
\* refused by the cycle check.
C25_NullManagerAccepted ==
    (Op("wouldCreateCycle") /\ args.newManagerId = NULL) => ret = "false"

\* the target is a member with a manager and a subordinate, without the
\* owner role
C25_Witness ==
    /\ Op("wouldCreateCycle")
    /\ Len(list) = 3
    /\ list[2].manager_id = 1 /\ list[3].manager_id = 2
    /\ list[2].role # "owner"
    /\ args.targetId = 2 /\ args.newManagerId = NULL
    /\ ret = "false"

\* the sum of f(j) for j in 1..n
RECURSIVE SumTo(_, _)
SumTo(f(_), n) == IF n = 0 THEN 0 ELSE f(n) + SumTo(f, n - 1)

\* s lists the members below R level by level: the direct reports of R in
\* list order, then one block per direct report, in the same order, that
\* lists the members below that report in the same manner
RECURSIVE DirectsFirst(_, _, _)
DirectsFirst(t, R, s) ==
    LET D == SelectSeq(t, LAMBDA m : m.manager_id = R)
        size(j) == Cardinality(Descendants(t, D[j].id))
        start(j) == Len(D) + SumTo(size, j - 1)
    IN /\ Len(s) = Len(D) + SumTo(size, Len(D))
       /\ \A j \in DOMAIN D : s[j] = D[j]
       /\ \A j \in DOMAIN D : \A a, b \in DOMAIN D :
              (a < b) => findById(t, D[a].id) < findById(t, D[b].id)
       /\ \A j \in DOMAIN D :
              DirectsFirst(t, D[j].id, SubSeq(s, start(j) + 1, start(j) + size(j)))

\* C26: on a forest, getAllSubordinates(team, R) is the direct reports of R
\* in list order, followed by the whole result for the first direct report,
\* then for the second, and so on in list order.
C26_DirectsThenSubtrees ==
    (Op("getAllSubordinates") /\ args.memberId \in Ids(list))
        => DirectsFirst(list, args.memberId, ret)

\* R has two direct reports with a subordinate each: both reports come
\* first, then the subordinate of the first, then that of the second
C26_Witness ==
    /\ Op("getAllSubordinates")
    /\ Len(list) = 5
    /\ list[1].manager_id = 5 /\ list[2].manager_id = 3
    /\ list[3].manager_id = 5 /\ list[4].manager_id = 1
    /\ list[5].manager_id = NULL
    /\ args.memberId = 5
    /\ IdsOf(ret) = <<1, 3, 4, 2>>

\* C27: orphan repair preserves acyclicity: a write of enforceHierarchy made
\* on a stored list without a cycle, reached through explicit edits, leaves
\* a stored list without a cycle.
C27_RepairKeepsForest ==
    [][(/\ repair["c1"].state = "writing"
        /\ members' # members
        /\ IsForest(members)) => IsForest(members')]_vars

\* C28: the Kanban filter, built from getEligibleAssignees, admits exactly
\* the tasks the Overview and Calendar filters, built from getVisibleUserIds
\* and getVisibleAssigneeNames, admit: for every member list, viewer, owner
\* flag and task, with or without an assignee id.
C28_KanbanAdmitsSameTasks ==
    Op("renderTask") => /\ ret.kanban = ret.overview
                        /\ ret.kanban = ret.calendar

\* a viewer with a manager sees a task without assignee id through the name
\* of a subordinate, on the three pages
C28_Witness ==
    /\ Op("renderTask")
    /\ ~args.isOwner
    /\ args.task.assignee_id = NULL
    /\ LET k == findByUserId(list, args.user) IN
       /\ k # 0
       /\ list[k].manager_id # NULL
       /\ list[k].name # args.task.assignee
    /\ ret.kanban /\ ret.overview /\ ret.calendar

\* member rows of the account that asked to join
Joined(t) == Cardinality({i \in DOMAIN t : t[i].user_id = Requester})

\* C29: whatever responses are given to one join request, a member row is
\* created for its account only while the request is pending and the account
\* has no row yet: never a second row, never a row for a rejected request.
C29_OneMemberPerRequest ==
    [][(Joined(members') > Joined(members))
          => (request = "pending" /\ Joined(members) = 0)]_vars

\* user u may complete the task: the organization owner or its creator
MayComplete(u) == isOrgOwner(u) \/ storedTask.creator_id = u

\* C30: on the Kanban board a status done is written only by the owner or
\* the task's creator: every other user's drop onto the done column is
\* refused and changes nothing, the stored status becomes done only through
\* a write of the owner or the creator, a board shows done only after such
\* an action of its user or a reload of the stored row, and the approve
\* button is offered only to the creator, on a task in review.
C30_DoneOnlyByOwnerOrCreator ==
    [][\A u \in KanbanUsers :
          /\ (pending'[u] = "done" /\ pending[u] # "done") => MayComplete(u)
          /\ (storedTask'.status = "done" /\ storedTask.status # "done") =>
                 \E w \in KanbanUsers :
                     pending[w] = "done" /\ pending'[w] = "none" /\ MayComplete(w)
          /\ (tasks'[u].status = "done" /\ tasks[u].status # "done") =>
                 \/ pending'[u] = "done" /\ MayComplete(u)
                 \/ tasks'[u] = storedTask
          /\ (alert' = OnlyCreatorError) =>
                 /\ UNCHANGED <<storedTask, tasks, pending>>
          /\ ("done" \in cardActions(u)) =>
                 (storedTask.creator_id = u /\ tasks[u].status = "review")]_vars

\* the creator, who is not the owner, completed the task; user 3, whose board
\* still shows it in review, dropped it onto done and was refused
C30_Witness ==
    /\ storedTask.status = "done"
    /\ storedTask.creator_id = 2
    /\ tasks[3].status = "review"
    /\ alert = OnlyCreatorError

====
